---- MODULE Spec2Model ----
(***************************************************************************)
(* KATSEYE news aggregator: the daily cron run (src/cron/update_news.py):  *)
(* research submit and poll, extract_news_items, save_to_minio.            *)
(*                                                                         *)
(* Python dicts are functions with a string domain; a key that is absent   *)
(* is absent from the domain.  A text is the pair of the content it is cut *)
(* from and its length, [src, len], so that slicing (s[:n]) and len(s) are *)
(* computed; the empty string is the text of length 0.                     *)
(***************************************************************************)
EXTENDS Integers, Sequences, FiniteSets, TLC

VARIABLES
    env,            \* per process: the module-level configuration (lines 32-36)
    pc,             \* per process: where main() of the run stands
    polls,          \* per process: status reads issued by the poll loop (i + 1)
    status,         \* per process: the status of the last status read
    err,            \* per process: the exception that ended the run
    research_data,  \* per process: what run_research returned
    extracted,      \* per process: output_data of main
    trace,          \* per process: what each tier of the extraction did
    json_data,      \* per process: payload and date key prepared by save_to_minio
    put_idx,        \* per process: how many put_object calls have succeeded
    requests,       \* per process: network calls issued, by kind
    bucket,         \* object store: whether the bucket katseye-news exists
    objects,        \* object store: key -> stored object
    now,            \* the UTC clock
    latest_order,   \* runs in the order their put of latest.json completed
    finish_order,   \* runs in the order save_to_minio returned
    again,          \* a second extract_news_items of the same research_data
    backend_env,    \* backend process: MINIO_ENDPOINT (src/backend/main.py line 19)
    response        \* backend process: the last answer of get_latest_news

vars == <<env, pc, polls, status, err, research_data, extracted, trace, json_data,
          put_idx, requests, bucket, objects, now, latest_order, finish_order, again,
          backend_env, response>>

\* ---------------------------------------------------------------- bounds

MaxChecks == 2
MaxClock == 2
TicksPerDay == 2
NumRuns == 2

Runs == 1..NumRuns

\* ---------------------------------------------------------------- dicts and texts

Get(d, k, default) == IF k \in DOMAIN d THEN d[k] ELSE default

Lit(s, n) == [src |-> s, len |-> n]

EmptyText == Lit("", 0)

\* s[:n]
Slice(s, n) == IF s.len <= n THEN s ELSE [s EXCEPT !.len = n]

\* datetime.isoformat() and strftime("%Y-%m-%d") of the clock value t
DayOf(t) == t \div TicksPerDay

DateKey(t) == "2026-01-0" \o ToString(DayOf(t) + 1)

IsoFormat(t) == DateKey(t) \o "T0" \o ToString(t % TicksPerDay) \o ":00:00+00:00"

\* ---------------------------------------------------------------- research results

\* items of a structured_output document
sA == [headline |-> Lit("H", 1), summary |-> Lit("S", 1), category |-> "music",
       content_type |-> "article", source_name |-> "X", relevance_score |-> 7]
sB == [headline |-> Lit("B", 1)]
sC == [headline |-> Lit("C", 1), summary |-> Lit("long summary", 700),
       published_date |-> "2025-12-31", relevance_score |-> 9,
       member_tags |-> <<"Lara">>]
sD == [headline |-> Lit("D", 1), summary |-> Lit("S", 1), category |-> "fan",
       relevance_score |-> 7]

event1 == [title |-> "Tour", date |-> "2026-02-01"]

\* items of a JSON document embedded in an answer
eA == [headline |-> Lit("E1", 2), summary |-> Lit("S", 1), category |-> "social",
       relevance_score |-> 8]
eB == [headline |-> Lit("E2", 2)]
eC == [id |-> "7", headline |-> Lit("E3", 2), relevance_score |-> 8]
eD == [id |-> "7", headline |-> Lit("E4", 2), summary |-> Lit("S", 1),
       category |-> "music", relevance_score |-> 2]
eE == [id |-> "", headline |-> Lit("E5", 2), summary |-> Lit("S", 1),
       category |-> "music", relevance_score |-> 8]

\* The answers that are JSON text: content name -> the document json.loads returns.
JsonDocs ==
    [ json_items    |-> [news_items |-> <<eA, eB>>],
      json_ids      |-> [news_items |-> <<eC, eD, eE>>],
      json_no_items |-> [trending_topics |-> <<"#x">>],
      json_empty    |-> [news_items |-> <<>>] ]

\* The answers that start with "{" once stripped; "json_bad" is not valid JSON.
BraceSrcs == DOMAIN JsonDocs \cup {"json_bad"}

plain(n) == Lit("plain", n)

Checks ==
    { [check_name |-> Lit("news", 4), passed |-> TRUE, answer |-> plain(600),
       payload |-> [structured_output |-> [news_items |-> <<sA>>]]],
      [payload |-> [structured_output |->
          [news_items |-> <<sB, sC>>, trending_topics |-> <<"#a">>,
           upcoming_events |-> <<event1>>]]],
      [payload |-> [structured_output |-> [news_items |-> <<sD>>]],
       passed |-> TRUE, answer |-> Lit("json_items", 120)],
      [payload |-> [structured_output |-> [news_items |-> <<>>]],
       passed |-> TRUE, answer |-> plain(120)],
      [payload |-> [structured_output |-> [trending_topics |-> <<"#b">>]]],
      [payload |-> [structured_output |-> <<>>], passed |-> TRUE,
       answer |-> EmptyText],
      [check_name |-> Lit("short", 5), passed |-> TRUE, answer |-> plain(99),
       payload |-> <<>>],
      [passed |-> TRUE, answer |-> plain(100)],
      [passed |-> TRUE, answer |-> plain(101)],
      [check_name |-> Lit("a very long check name", 130), passed |-> TRUE,
       answer |-> plain(600)],
      [check_name |-> Lit("failed", 6), passed |-> FALSE, answer |-> plain(600)],
      [passed |-> TRUE, answer |-> Lit("json_items", 120)],
      [passed |-> TRUE, answer |-> Lit("json_ids", 150)],
      [passed |-> TRUE, answer |-> Lit("json_no_items", 120)],
      [passed |-> TRUE, answer |-> Lit("json_empty", 120)],
      [passed |-> TRUE, answer |-> Lit("json_bad", 100)],
      [check_name |-> Lit("bad", 3), passed |-> TRUE, answer |-> Lit("json_bad", 120)] }

FinalReports == { EmptyText, Lit("Big news", 8), Lit("report", 600) }

RECURSIVE SeqsUpTo(_, _)
SeqsUpTo(S, n) ==
    IF n = 0 THEN { <<>> }
    ELSE LET shorter == SeqsUpTo(S, n - 1)
         IN  shorter \cup { Append(s, x) : s \in shorter, x \in S }

\* The documents a status read can return with status "complete".
Results(job) ==
    { [job_id |-> job, status |-> "complete", check_results |-> cs, final_report |-> fr] :
        cs \in SeqsUpTo(Checks, MaxChecks), fr \in FinalReports }

\* ---------------------------------------------------------------- extract_news_items

\* One item of structured_output["news_items"], with the id the running count gives.
StructuredItem(item, n) ==
    [ id              |-> ToString(n),
      headline        |-> Get(item, "headline", Lit("KATSEYE Update", 14)),
      summary         |-> Get(item, "summary", EmptyText),
      category        |-> Get(item, "category", "music"),
      content_type    |-> Get(item, "content_type", "article"),
      source_url      |-> Get(item, "source_url", ""),
      source_name     |-> Get(item, "source_name", "Grep Research"),
      published_date  |-> Get(item, "published_date", ""),
      relevance_score |-> Get(item, "relevance_score", 5),
      member_tags     |-> Get(item, "member_tags", <<>>),
      media_urls      |-> Get(item, "media_urls", <<>>) ]

RECURSIVE StructuredItems(_, _)
StructuredItems(items, news_items) ==
    IF items = <<>> THEN news_items
    ELSE StructuredItems(Tail(items),
            Append(news_items, StructuredItem(Head(items), Len(news_items) + 1)))

\* payload.get("structured_output") is a non-empty dict
HasStructuredOutput(check) ==
    LET payload == Get(check, "payload", <<>>)
    IN  /\ "structured_output" \in DOMAIN payload
        /\ DOMAIN payload["structured_output"] # {}

\* The first loop over check_results.
RECURSIVE StructuredTier(_, _)
StructuredTier(check_results, acc) ==
    IF check_results = <<>> THEN acc
    ELSE LET check == Head(check_results)
             so    == check.payload.structured_output
             next  ==
                IF HasStructuredOutput(check)
                THEN [ news_items |->
                          IF "news_items" \in DOMAIN so
                          THEN StructuredItems(so.news_items, acc.news_items)
                          ELSE acc.news_items,
                       trending_topics |->
                          acc.trending_topics \o Get(so, "trending_topics", <<>>),
                       upcoming_events |->
                          acc.upcoming_events \o Get(so, "upcoming_events", <<>>) ]
                ELSE acc
         IN  StructuredTier(Tail(check_results), next)

FallbackEntered_always(news_items) == TRUE

\* if not news_items: the fallback loop is entered
FallbackEntered(news_items) == news_items = <<>>

\* check.get("passed") and check.get("answer")
HasAnswer(check) ==
    /\ Get(check, "passed", FALSE)
    /\ Get(check, "answer", EmptyText).len > 0

\* The try block: the answer, stripped, starts with "{", json.loads succeeds and
\* the document has "news_items".
EmbeddedJson(answer) ==
    /\ answer.src \in BraceSrcs
    /\ answer.src \in DOMAIN JsonDocs
    /\ "news_items" \in DOMAIN JsonDocs[answer.src]

\* {"id": str(item_id), **item}: the keys of item come last and win.
EmbeddedItem(item, item_id) == item @@ ("id" :> ToString(item_id))

RECURSIVE EmbeddedItems(_, _)
EmbeddedItems(items, acc) ==
    IF items = <<>> THEN acc
    ELSE EmbeddedItems(Tail(items),
            [ acc EXCEPT !.news_items = Append(@, EmbeddedItem(Head(items), acc.item_id)),
                         !.tiers = Append(@, "embedded_json"),
                         !.item_id = @ + 1 ])

LongEnough_ge(answer) == answer.len >= 100

\* if len(answer) > 100
LongEnough(answer) == answer.len > 100

PlainTextItem_stamped(check, item_id, t) ==
    [ id              |-> ToString(item_id) \o "-" \o IsoFormat(t),
      headline        |-> Slice(Get(check, "check_name",
                                    Lit("KATSEYE Update #" \o ToString(item_id), 17)), 100),
      summary         |-> Slice(check.answer, 500),
      category        |-> "music",
      content_type    |-> "article",
      source_url      |-> "",
      source_name     |-> "Grep Research",
      published_date  |-> IsoFormat(t),
      relevance_score |-> 6,
      member_tags     |-> <<"Group">>,
      media_urls      |-> <<>> ]

\* The item the plain-text branch makes of a check record.
PlainTextItem(check, item_id, t) ==
    [ id              |-> ToString(item_id),
      headline        |-> Slice(Get(check, "check_name",
                                    Lit("KATSEYE Update #" \o ToString(item_id), 17)), 100),
      summary         |-> Slice(check.answer, 500),
      category        |-> "music",
      content_type    |-> "article",
      source_url      |-> "",
      source_name     |-> "Grep Research",
      published_date  |-> IsoFormat(t),
      relevance_score |-> 6,
      member_tags     |-> <<"Group">>,
      media_urls      |-> <<>> ]

\* The second loop over check_results; acc = [news_items, tiers, item_id].
RECURSIVE FallbackTier(_, _, _)
FallbackTier(check_results, acc, t) ==
    IF check_results = <<>> THEN acc
    ELSE LET check == Head(check_results)
             next  ==
                IF ~HasAnswer(check) THEN acc
                ELSE IF EmbeddedJson(check.answer)
                THEN EmbeddedItems(JsonDocs[check.answer.src].news_items, acc)
                ELSE IF LongEnough(check.answer)
                THEN [ acc EXCEPT
                         !.news_items = Append(@, PlainTextItem(check, acc.item_id, t)),
                         !.tiers = Append(@, "free_text"),
                         !.item_id = @ + 1 ]
                ELSE acc
         IN  FallbackTier(Tail(check_results), next, t)

FinalReportItem_whole(final_report, t) ==
    [ id              |-> "1",
      headline        |-> Lit("Latest KATSEYE News Roundup", 27),
      summary         |-> final_report,
      category        |-> "music",
      content_type    |-> "article",
      source_url      |-> "",
      source_name     |-> "Grep Research",
      published_date  |-> IsoFormat(t),
      relevance_score |-> 10,
      member_tags     |-> <<"Group">>,
      media_urls      |-> <<>> ]

\* The item made of final_report when no tier made an item.
FinalReportItem(final_report, t) ==
    [ id              |-> "1",
      headline        |-> Lit("Latest KATSEYE News Roundup", 27),
      summary         |-> IF final_report.len > 500 THEN Slice(final_report, 500)
                          ELSE final_report,
      category        |-> "music",
      content_type    |-> "article",
      source_url      |-> "",
      source_name     |-> "Grep Research",
      published_date  |-> IsoFormat(t),
      relevance_score |-> 10,
      member_tags     |-> <<"Group">>,
      media_urls      |-> <<>> ]

\* key=lambda x: x.get("relevance_score", 0)
SortKey(item) == Get(item, "relevance_score", 0)

\* list.sort(key, reverse=True): descending, equal keys keep their order.
RECURSIVE InsertSorted(_, _)
InsertSorted(sorted, item) ==
    IF sorted = <<>> THEN <<item>>
    ELSE IF SortKey(Head(sorted)) >= SortKey(item)
         THEN <<Head(sorted)>> \o InsertSorted(Tail(sorted), item)
         ELSE <<item>> \o sorted

RECURSIVE SortByRelevance_ties(_)
SortByRelevance_ties(items) ==
    IF items = <<>> THEN <<>>
    ELSE InsertSorted(SortByRelevance_ties(Tail(items)), Head(items))

RECURSIVE SortFrom(_, _)
SortFrom(items, sorted) ==
    IF items = <<>> THEN sorted
    ELSE SortFrom(Tail(items), InsertSorted(sorted, Head(items)))

SortByRelevance(items) == SortFrom(items, <<>>)

DefaultTopics == <<"#KATSEYE", "#EYEKON", "#PopStarAcademy", "#Touch">>

\* The whole of extract_news_items at clock value t, with what each tier did:
\* appended is news_items before the sort, tiers the tier that appended each item.
\* The datetime.now() reads of one call are taken to return the same instant t.
Extraction(data, t) ==
    LET check_results == Get(data, "check_results", <<>>)
        final_report  == Get(data, "final_report", EmptyText)
        tier1 == StructuredTier(check_results,
                    [news_items |-> <<>>, trending_topics |-> <<>>,
                     upcoming_events |-> <<>>])
        n1 == Len(tier1.news_items)
        fallback == FallbackEntered(tier1.news_items)
        tier23 ==
            IF fallback
            THEN FallbackTier(check_results,
                    [news_items |-> tier1.news_items,
                     tiers |-> [i \in 1..n1 |-> "structured"], item_id |-> 1], t)
            ELSE [news_items |-> tier1.news_items,
                  tiers |-> [i \in 1..n1 |-> "structured"], item_id |-> 1]
        final == tier23.news_items = <<>> /\ final_report.len > 0
        appended ==
            IF final THEN <<FinalReportItem(final_report, t)>> ELSE tier23.news_items
        tiers == IF final THEN <<"final_report">> ELSE tier23.tiers
    IN  [ news_items      |-> SortByRelevance(appended),
          trending_topics |-> IF tier1.trending_topics = <<>> THEN DefaultTopics
                              ELSE tier1.trending_topics,
          upcoming_events |-> tier1.upcoming_events,
          appended        |-> appended,
          tiers           |-> tiers,
          fallback        |-> fallback ]

\* What extract_news_items returns.
extract_news_items(data, t) ==
    LET x == Extraction(data, t)
    IN  [ news_items |-> x.news_items, trending_topics |-> x.trending_topics,
          upcoming_events |-> x.upcoming_events ]

\* What each tier did, which the caller does not see.
TierTrace(data, t) ==
    LET x == Extraction(data, t)
    IN  [ appended |-> x.appended, tiers |-> x.tiers, fallback |-> x.fallback ]

\* ---------------------------------------------------------------- configuration

ConfigNames == {"GREP_API_URL", "GREP_API_TOKEN", "MINIO_ENDPOINT", "ACCESS_KEY",
                "SECRET_KEY"}

\* os.getenv(name, ""): each variable is set or is the empty string.
Configs == [ConfigNames -> {"", "set"}]

FullConfig == [n \in ConfigNames |-> "set"]

\* if not GREP_API_URL or not GREP_API_TOKEN
ResearchConfigMissing(cfg) == cfg["GREP_API_URL"] = "" \/ cfg["GREP_API_TOKEN"] = ""

\* if not MINIO_ENDPOINT or not MINIO_ACCESS_KEY or not MINIO_SECRET_KEY
StoreConfigMissing(cfg) ==
    cfg["MINIO_ENDPOINT"] = "" \/ cfg["ACCESS_KEY"] = "" \/ cfg["SECRET_KEY"] = ""

\* ---------------------------------------------------------------- research client

\* for i in range(90)
MaxAttempts == 90

\* The loop ends once range(90) is used up.
BudgetExhausted_late(n) == n > MaxAttempts

BudgetExhausted(n) == n >= MaxAttempts

IsComplete(s) == s = "complete"

IsFailed_never(s) == FALSE

IsFailed(s) == s = "failed"

\* The job id the research service gives the job of run r.
JobOf(r) == "job-" \o ToString(r)

\* The results of the run specification: no check record, or any one of them.
RunResults(job) ==
    { [job_id |-> job, status |-> "complete", check_results |-> cs, final_report |-> fr] :
        cs \in SeqsUpTo(Checks, 1), fr \in FinalReports }

\* What one status read can answer: an HTTP error status, or a document.
StatusResponses(r) ==
    { [http_ok |-> FALSE, data |-> <<>>] }
    \cup { [http_ok |-> TRUE, data |-> d] :
            d \in { [job_id |-> JobOf(r), status |-> "pending"],
                    [job_id |-> JobOf(r), status |-> "running"],
                    [job_id |-> JobOf(r), status |-> "failed"],
                    [job_id |-> JobOf(r)] } }
    \cup { [http_ok |-> TRUE, data |-> d] :
            d \in RunResults(JobOf(r)) }

NoError == [type |-> "none", at |-> ""]

Raise(type, at) == [type |-> type, at |-> at]

NoTrace == [appended |-> <<>>, tiers |-> <<>>, fallback |-> FALSE, t |-> 0]

NoJson == [body |-> <<>>, date_key |-> ""]

NotAgain == [done |-> FALSE, t |-> 0, out |-> <<>>]

NoResponse == [kind |-> "none", read |-> "none", present |-> FALSE, doc |-> <<>>,
               body |-> <<>>]

\* run_research up to its first await: the configuration check and the POST.
Submit(r) ==
    /\ pc[r] = "start"
    /\ IF ResearchConfigMissing(env[r])
       THEN /\ pc' = [pc EXCEPT ![r] = "aborted"]
            /\ err' = [err EXCEPT ![r] = Raise("ValueError", "run_research")]
            /\ UNCHANGED requests
       ELSE /\ requests' = [requests EXCEPT ![r] = @ \cup {"submit"}]
            /\ \E ok \in BOOLEAN :
                 IF ok
                 THEN /\ pc' = [pc EXCEPT ![r] = "poll"]
                      /\ UNCHANGED err
                 ELSE /\ pc' = [pc EXCEPT ![r] = "aborted"]
                      /\ err' = [err EXCEPT ![r] = Raise("HTTPError", "submit")]
    /\ UNCHANGED <<backend_env, response>>
    /\ UNCHANGED <<env, polls, status, research_data, extracted, trace, json_data,
                   put_idx, bucket, objects, now, latest_order, finish_order, again>>

\* One turn of the poll loop: sleep, status read, and what the loop does with it.
\* polls is the loop's count of reads; it goes with the frame when run_research
\* returns.
Poll(r) ==
    /\ pc[r] = "poll"
    /\ \E resp \in StatusResponses(r) :
         LET n == polls[r] + 1
             s == Get(resp.data, "status", "unknown")
         IN  /\ requests' = [requests EXCEPT ![r] = @ \cup {"status"}]
             /\ IF ~resp.http_ok
                THEN /\ pc' = [pc EXCEPT ![r] = "aborted"]
                     /\ err' = [err EXCEPT ![r] = Raise("HTTPError", "poll")]
                     /\ polls' = [polls EXCEPT ![r] = n]
                     /\ UNCHANGED <<status, research_data>>
                ELSE IF IsComplete(s)
                THEN /\ pc' = [pc EXCEPT ![r] = "extract"]
                     /\ research_data' = [research_data EXCEPT ![r] = resp.data]
                     /\ status' = [status EXCEPT ![r] = s]
                     /\ polls' = [polls EXCEPT ![r] = 0]
                     /\ UNCHANGED err
                ELSE IF IsFailed(s)
                THEN /\ pc' = [pc EXCEPT ![r] = "aborted"]
                     /\ err' = [err EXCEPT ![r] = Raise("Exception", "poll")]
                     /\ status' = [status EXCEPT ![r] = s]
                     /\ polls' = [polls EXCEPT ![r] = n]
                     /\ UNCHANGED research_data
                ELSE IF BudgetExhausted(n)
                THEN /\ pc' = [pc EXCEPT ![r] = "aborted"]
                     /\ err' = [err EXCEPT ![r] = Raise("TimeoutError", "poll")]
                     /\ status' = [status EXCEPT ![r] = s]
                     /\ polls' = [polls EXCEPT ![r] = n]
                     /\ UNCHANGED research_data
                ELSE /\ status' = [status EXCEPT ![r] = s]
                     /\ polls' = [polls EXCEPT ![r] = n]
                     /\ UNCHANGED <<pc, err, research_data>>
    /\ UNCHANGED <<backend_env, response>>
    /\ UNCHANGED <<env, extracted, trace, json_data, put_idx, bucket, objects, now,
                   latest_order, finish_order, again>>

\* main: extract_news_items(research_data), then output_data.
Extract(r) ==
    /\ pc[r] = "extract"
    /\ \E t \in now..MaxClock :
         /\ now' = t
         /\ extracted' = [extracted EXCEPT ![r] =
               ("job_id" :> Get(research_data[r], "job_id", "None"))
                 @@ extract_news_items(research_data[r], t)]
         /\ trace' = [trace EXCEPT ![r] = TierTrace(research_data[r], t) @@ ("t" :> t)]
    /\ pc' = [pc EXCEPT ![r] = "save"]
    /\ UNCHANGED <<backend_env, response>>
    /\ UNCHANGED <<env, polls, status, err, research_data, json_data, put_idx, requests,
                   bucket, objects, latest_order, finish_order, again>>

\* extract_news_items called once more on the research_data of run 1.
ExtractAgain ==
    /\ pc[1] = "save"
    /\ ~again.done
    /\ \E t \in now..MaxClock :
         /\ now' = t
         /\ again' = [done |-> TRUE, t |-> t, out |-> extract_news_items(research_data[1], t)]
    /\ UNCHANGED <<backend_env, response>>
    /\ UNCHANGED <<env, pc, polls, status, err, research_data, extracted, trace,
                   json_data, put_idx, requests, bucket, objects, latest_order,
                   finish_order>>

\* ---------------------------------------------------------------- save_to_minio

\* news_data, built at clock value t.
NewsData_nojob(data, t) ==
    [ last_updated    |-> IsoFormat(t),
      news_items      |-> Get(data, "news_items", <<>>),
      trending_topics |-> Get(data, "trending_topics", <<>>),
      upcoming_events |-> Get(data, "upcoming_events", <<>>),
      research_job_id |-> Get(data, "id", "None"),
      generated_at    |-> IsoFormat(t) ]

NewsData(data, t) ==
    [ last_updated    |-> IsoFormat(t),
      news_items      |-> Get(data, "news_items", <<>>),
      trending_topics |-> Get(data, "trending_topics", <<>>),
      upcoming_events |-> Get(data, "upcoming_events", <<>>),
      research_job_id |-> Get(data, "job_id", "None"),
      generated_at    |-> IsoFormat(t) ]

\* json.dumps(news_data, indent=2).encode("utf-8"): the document as JSON text.
JsonDumps(doc) == [json |-> doc]

\* The keys save_to_minio writes, in the order it writes them.
PutKeys_archive_first(date_key) == << "archive/" \o date_key \o ".json", "latest.json" >>

PutKeys(date_key) == << "latest.json", "archive/" \o date_key \o ".json" >>

S3Object(body) == [Body |-> body, ContentType |-> "application/json"]

\* save_to_minio up to its first request: the credentials check, then head_bucket.
\* Any exception of head_bucket, a missing bucket as much as an unreachable
\* store, leads to create_bucket.
HeadBucket(r) ==
    /\ pc[r] = "save"
    /\ IF StoreConfigMissing(env[r])
       THEN /\ pc' = [pc EXCEPT ![r] = "aborted"]
            /\ err' = [err EXCEPT ![r] = Raise("ValueError", "save_to_minio")]
            /\ UNCHANGED requests
       ELSE /\ requests' = [requests EXCEPT ![r] = @ \cup {"head_bucket"}]
            /\ UNCHANGED err
            /\ \E ok \in BOOLEAN :
                 pc' = [pc EXCEPT ![r] = IF ok /\ bucket THEN "put_latest"
                                          ELSE "create_bucket"]
    /\ UNCHANGED <<backend_env, response>>
    /\ UNCHANGED <<env, polls, status, research_data, extracted, trace, json_data,
                   put_idx, bucket, objects, now, latest_order, finish_order, again>>

\* s3.create_bucket in the except branch; its exception ends the run.
CreateBucket(r) ==
    /\ pc[r] = "create_bucket"
    /\ requests' = [requests EXCEPT ![r] = @ \cup {"create_bucket"}]
    /\ \E ok \in BOOLEAN :
         IF ok
         THEN /\ bucket' = TRUE
              /\ pc' = [pc EXCEPT ![r] = "put_latest"]
              /\ UNCHANGED err
         ELSE /\ pc' = [pc EXCEPT ![r] = "aborted"]
              /\ err' = [err EXCEPT ![r] = Raise("StorageError", "create_bucket")]
              /\ UNCHANGED bucket
    /\ UNCHANGED <<backend_env, response>>
    /\ UNCHANGED <<env, polls, status, research_data, extracted, trace, json_data,
                   put_idx, objects, now, latest_order, finish_order, again>>

\* news_data and json_data are prepared, then the first put_object is issued.
PutLatest(r) ==
    /\ pc[r] = "put_latest"
    /\ requests' = [requests EXCEPT ![r] = @ \cup {"put_object"}]
    /\ \E t \in now..MaxClock, ok \in BOOLEAN :
         LET body == JsonDumps(NewsData(extracted[r], t))
             key  == PutKeys(DateKey(t))[1]
         IN  /\ now' = t
             /\ json_data' = [json_data EXCEPT ![r] = [body |-> body, date_key |-> DateKey(t)]]
             /\ IF ok /\ bucket
                THEN /\ objects' = (key :> S3Object(body)) @@ objects
                     /\ put_idx' = [put_idx EXCEPT ![r] = 1]
                     /\ latest_order' = IF key = "latest.json" THEN Append(latest_order, r)
                                        ELSE latest_order
                     /\ pc' = [pc EXCEPT ![r] = "put_archive"]
                     /\ UNCHANGED err
                ELSE /\ pc' = [pc EXCEPT ![r] = "aborted"]
                     /\ err' = [err EXCEPT ![r] = Raise("StorageError", "put_latest")]
                     /\ UNCHANGED <<objects, put_idx, latest_order>>
    /\ UNCHANGED <<backend_env, response>>
    /\ UNCHANGED <<env, polls, status, research_data, extracted, trace, bucket,
                   finish_order, again>>

\* The second put_object, of the same json_data; save_to_minio then returns and
\* main ends.
PutArchive(r) ==
    /\ pc[r] = "put_archive"
    /\ \E ok \in BOOLEAN :
         LET key == PutKeys(json_data[r].date_key)[2]
         IN  IF ok /\ bucket
             THEN /\ objects' = (key :> S3Object(json_data[r].body)) @@ objects
                  /\ put_idx' = [put_idx EXCEPT ![r] = 2]
                  /\ latest_order' = IF key = "latest.json" THEN Append(latest_order, r)
                                     ELSE latest_order
                  /\ finish_order' = Append(finish_order, r)
                  /\ pc' = [pc EXCEPT ![r] = "done"]
                  /\ UNCHANGED err
             ELSE /\ pc' = [pc EXCEPT ![r] = "aborted"]
                  /\ err' = [err EXCEPT ![r] = Raise("StorageError", "put_archive")]
                  /\ UNCHANGED <<objects, put_idx, latest_order, finish_order>>
    /\ UNCHANGED <<backend_env, response>>
    /\ UNCHANGED <<env, polls, status, research_data, extracted, trace, json_data,
                   requests, bucket, now, again>>

\* ---------------------------------------------------------------- specifications

\* What an earlier run (job-0, on day 1) left in the store.
EarlierBody ==
    JsonDumps(NewsData(("job_id" :> "job-0") @@ extract_news_items(
        [job_id |-> "job-0", check_results |-> <<>>, final_report |-> Lit("Big news", 8)],
        0), 0))

EarlierObjects ==
    ("latest.json" :> S3Object(EarlierBody))
      @@ (PutKeys(DateKey(0))[2] :> S3Object(EarlierBody))

Idle ==
    /\ polls = [r \in Runs |-> 0]
    /\ status = [r \in Runs |-> "none"]
    /\ err = [r \in Runs |-> NoError]
    /\ trace = [r \in Runs |-> NoTrace]
    /\ json_data = [r \in Runs |-> NoJson]
    /\ put_idx = [r \in Runs |-> 0]
    /\ requests = [r \in Runs |-> {}]
    /\ now = 0
    /\ latest_order = <<>>
    /\ finish_order = <<>>
    /\ again = NotAgain
    /\ response = NoResponse

\* One cron run, process 1, from its start; the store is empty or holds what an
\* earlier run left.
Init ==
    /\ Idle
    /\ backend_env = "set"
    /\ \E cfg \in Configs : env = [r \in Runs |-> IF r = 1 THEN cfg ELSE FullConfig]
    /\ pc = [r \in Runs |-> IF r = 1 THEN "start" ELSE "idle"]
    /\ research_data = [r \in Runs |-> <<>>]
    /\ extracted = [r \in Runs |-> <<>>]
    /\ bucket \in BOOLEAN
    /\ objects \in IF bucket THEN { <<>>, EarlierObjects } ELSE { <<>> }

Next ==
    \/ Submit(1)
    \/ Poll(1)
    \/ Extract(1)
    \/ HeadBucket(1)
    \/ CreateBucket(1)
    \/ PutLatest(1)
    \/ PutArchive(1)

Spec == Init /\ [][Next]_vars

\* extract_news_items alone: run_research has returned any of the results.
InitExtract ==
    /\ Idle
    /\ backend_env = "set"
    /\ env = [r \in Runs |-> FullConfig]
    /\ pc = [r \in Runs |-> IF r = 1 THEN "extract" ELSE "idle"]
    /\ \E d \in Results(JobOf(1)) :
         research_data = [r \in Runs |-> IF r = 1 THEN d ELSE <<>>]
    /\ extracted = [r \in Runs |-> <<>>]
    /\ bucket = TRUE
    /\ objects = <<>>

NextExtract ==
    \/ Extract(1)
    \/ ExtractAgain

SpecExtract == InitExtract /\ [][NextExtract]_vars

\* The results the concurrent runs publish.
ConcResult(r) ==
    [job_id |-> JobOf(r), status |-> "complete",
     check_results |-> << [payload |-> [structured_output |-> [news_items |-> <<sA>>]]] >>,
     final_report |-> EmptyText]

\* Every process has its research result extracted and enters save_to_minio.
InitConc ==
    /\ Idle
    /\ backend_env = "set"
    /\ env = [r \in Runs |-> FullConfig]
    /\ pc = [r \in Runs |-> "save"]
    /\ research_data = [r \in Runs |-> ConcResult(r)]
    /\ extracted = [r \in Runs |->
          ("job_id" :> JobOf(r)) @@ extract_news_items(ConcResult(r), 0)]
    /\ bucket \in BOOLEAN
    /\ objects = <<>>

NextConc ==
    \E r \in Runs :
        \/ HeadBucket(r)
        \/ CreateBucket(r)
        \/ PutLatest(r)
        \/ PutArchive(r)

SpecConc == InitConc /\ [][NextConc]_vars

\* ---------------------------------------------------------------- backend read path

\* DEMO_NEWS; last_updated is the time the backend process was started.
DEMO_NEWS ==
    [ last_updated |-> "2026-01-01T00:00:00",
      news_items |-> <<
        [id |-> "1", headline |-> Lit("KATSEYE Continues Global Rise", 29),
         summary |-> Lit("demo summary 1", 168), category |-> "music",
         source_name |-> "Demo News", relevance_score |-> 10],
        [id |-> "2", headline |-> Lit("Members Share Behind-the-Scenes Moments", 39),
         summary |-> Lit("demo summary 2", 122), category |-> "social",
         source_name |-> "Demo News", relevance_score |-> 9],
        [id |-> "3", headline |-> Lit("Debut Single Reaches New Milestone", 34),
         summary |-> Lit("demo summary 3", 106), category |-> "music",
         source_name |-> "Demo News", relevance_score |-> 8] >>,
      trending_topics |-> <<"#KATSEYE", "#EYEKON", "#PopStarAcademy">> ]

\* class NewsItem: the fields without a default are required.
NewsItemRequired == {"id", "headline", "summary", "category"}

NewsItemOptional == {"source_url", "source_name", "published_date", "relevance_score"}

\* NewsItem(**item): the required fields, and the optional ones or None.
NewsItemModel(item) ==
    [ f \in NewsItemRequired \cup NewsItemOptional |-> Get(item, f, "None") ]

\* NewsResponse(**news_data) raises no validation error.
Validates(news_data) ==
    /\ "last_updated" \in DOMAIN news_data
    /\ "news_items" \in DOMAIN news_data
    /\ \A i \in DOMAIN news_data.news_items :
         NewsItemRequired \subseteq DOMAIN news_data.news_items[i]

\* NewsResponse(**news_data), once it validates.
NewsResponseModel(news_data) ==
    [ last_updated    |-> news_data.last_updated,
      news_items      |-> [ i \in DOMAIN news_data.news_items |->
                              NewsItemModel(news_data.news_items[i]) ],
      trending_topics |-> Get(news_data, "trending_topics", <<>>) ]

\* What the GET of a key can answer: an exception (unreachable, timeout), a
\* status other than 200, or 200 with the stored body or with a body that is
\* not JSON; 200 with the stored body only when the key is stored.
StoreReads(key) ==
    { [read |-> "exception", status_code |-> 0, body |-> <<>>],
      [read |-> "non200", status_code |-> 404, body |-> <<>>],
      [read |-> "non200", status_code |-> 500, body |-> <<>>],
      [read |-> "not_json", status_code |-> 200, body |-> <<>>] }
    \cup IF key \in DOMAIN objects
         THEN { [read |-> "ok", status_code |-> 200, body |-> objects[key].Body] }
         ELSE {}

\* fetch_from_minio: the document read, or the empty dict for None.
fetch_from_minio(endpoint, resp) ==
    IF endpoint = "" THEN <<>>
    ELSE IF resp.read = "exception" THEN <<>>
    ELSE IF resp.status_code = 200
         THEN IF "json" \in DOMAIN resp.body THEN resp.body.json ELSE <<>>
         ELSE <<>>

ServeLatest_notfound(news_data) ==
    IF news_data # <<>>
    THEN IF Validates(news_data)
         THEN [kind |-> "stored", body |-> NewsResponseModel(news_data)]
         ELSE [kind |-> "error", body |-> <<>>]
    ELSE [kind |-> "error", body |-> <<>>]

\* get_latest_news after the fetch: the stored bundle, the demo bundle, or the
\* error answer of a validation error.
ServeLatest(news_data) ==
    IF news_data # <<>>
    THEN IF Validates(news_data)
         THEN [kind |-> "stored", body |-> NewsResponseModel(news_data)]
         ELSE [kind |-> "error", body |-> <<>>]
    ELSE [kind |-> "demo", body |-> NewsResponseModel(DEMO_NEWS)]

\* One request GET /api/news.
GetLatestNews ==
    /\ \E resp \in IF backend_env = ""
                   THEN { [read |-> "unconfigured", status_code |-> 0, body |-> <<>>] }
                   ELSE StoreReads("latest.json") :
         LET news_data == fetch_from_minio(backend_env, resp)
             answer    == ServeLatest(news_data)
         IN  response' = [ kind |-> answer.kind, read |-> resp.read,
                           present |-> "latest.json" \in DOMAIN objects,
                           doc |-> news_data, body |-> answer.body ]
    /\ UNCHANGED <<env, pc, polls, status, err, research_data, extracted, trace,
                   json_data, put_idx, requests, bucket, objects, now, latest_order,
                   finish_order, again, backend_env>>

\* The cron run from the result of run_research on, and the backend answering
\* requests at any time.
InitServe ==
    /\ Idle
    /\ backend_env \in {"", "set"}
    /\ env = [r \in Runs |-> FullConfig]
    /\ pc = [r \in Runs |-> IF r = 1 THEN "extract" ELSE "idle"]
    /\ \E d \in RunResults(JobOf(1)) :
         research_data = [r \in Runs |-> IF r = 1 THEN d ELSE <<>>]
    /\ extracted = [r \in Runs |-> <<>>]
    /\ bucket \in BOOLEAN
    /\ objects \in IF bucket THEN { <<>>, EarlierObjects } ELSE { <<>> }

NextServe ==
    \/ Extract(1)
    \/ HeadBucket(1)
    \/ CreateBucket(1)
    \/ PutLatest(1)
    \/ PutArchive(1)
    \/ GetLatestNews

SpecServe == InitServe /\ [][NextServe]_vars

\* ---------------------------------------------------------------- properties

\* The news_items of the structured_output document of a check record, if any.
DocItems(check) ==
    IF /\ "payload" \in DOMAIN check
       /\ "structured_output" \in DOMAIN check.payload
       /\ "news_items" \in DOMAIN check.payload.structured_output
    THEN check.payload.structured_output.news_items
    ELSE <<>>

RECURSIVE DocItemCount(_)
DocItemCount(check_results) ==
    IF check_results = <<>> THEN 0
    ELSE Len(DocItems(Head(check_results))) + DocItemCount(Tail(check_results))

Count(seq, x) == Cardinality({ i \in DOMAIN seq : seq[i] = x })

\* Run 1 has extracted its research result.
Extracted == pc[1] \notin {"idle", "start", "poll", "extract"} /\ trace[1] # NoTrace

\* C1: when some check record carries a structured_output document with a
\* non-empty news_items array, the fallback loop and the final-report branch do
\* not run, every item comes from the structured tier, and the number of items
\* returned is the sum of the news_items lengths over the documents.
C1_StructuredOnly ==
    (Extracted /\ DocItemCount(research_data[1].check_results) > 0)
        => /\ ~trace[1].fallback
           /\ \A i \in DOMAIN trace[1].tiers : trace[1].tiers[i] = "structured"
           /\ Len(extracted[1].news_items) = DocItemCount(research_data[1].check_results)

\* Two documents with items, next to a passed check whose answer is long enough
\* for the free-text tier.
C1_Witness ==
    /\ Extracted
    /\ Len(research_data[1].check_results) = 2
    /\ \A i \in 1..2 : Len(DocItems(research_data[1].check_results[i])) > 0
    /\ \E i \in 1..2 : LET c == research_data[1].check_results[i]
                       IN  HasAnswer(c) /\ c.answer.len > 100
    /\ Len(extracted[1].news_items) = 3

\* The check records that pass, have an answer of at least n characters and
\* are not consumed by the embedded-JSON tier.
Qualifying(check_results, n) ==
    { i \in DOMAIN check_results :
        LET c == check_results[i]
        IN  /\ Get(c, "passed", FALSE)
            /\ "answer" \in DOMAIN c
            /\ c.answer.len >= n
            /\ ~EmbeddedJson(c.answer) }

FreeTextLaw(n) ==
    (Extracted /\ DocItemCount(research_data[1].check_results) = 0)
        => /\ Count(trace[1].tiers, "free_text")
                = Cardinality(Qualifying(research_data[1].check_results, n))
           /\ Len(extracted[1].news_items) = Len(trace[1].tiers)
           /\ \A i \in DOMAIN trace[1].tiers :
                trace[1].tiers[i] = "free_text"
                    => trace[1].appended[i].relevance_score = 6

WithKey(seq, k) == SelectSeq(seq, LAMBDA item : SortKey(item) = k)

\* C8: the news_items returned are the items in the order the tiers appended
\* them, stably sorted by relevance_score (0 when absent) descending: no item
\* is followed by one of a higher score, and the items of each score keep their
\* append order.
C8_StableSort ==
    Extracted =>
        LET out == extracted[1].news_items
            app == trace[1].appended
        IN  /\ Len(out) = Len(app)
            /\ \A i \in 1..(Len(out) - 1) : SortKey(out[i]) >= SortKey(out[i + 1])
            /\ \A i \in DOMAIN app :
                 WithKey(out, SortKey(app[i])) = WithKey(app, SortKey(app[i]))

\* The sort moved an item, and two different items of one score are in the list.
C8_Witness ==
    /\ Extracted
    /\ extracted[1].news_items # trace[1].appended
    /\ \E i, j \in DOMAIN trace[1].appended :
         /\ i < j
         /\ trace[1].appended[i] # trace[1].appended[j]
         /\ SortKey(trace[1].appended[i]) = SortKey(trace[1].appended[j])

\* What the first extraction returned: output_data without the job id.
FirstOut ==
    [ news_items |-> extracted[1].news_items,
      trending_topics |-> extracted[1].trending_topics,
      upcoming_events |-> extracted[1].upcoming_events ]

\* C10 as stated: a second extract_news_items on the same research result
\* returns the same output in every field of every item.
C10_Original == again.done => again.out = FirstOut

\* The items the free-text and final-report tiers made in the first extraction.
Synthesized ==
    { trace[1].appended[i] : i \in { j \in DOMAIN trace[1].tiers :
                                       trace[1].tiers[j] \in {"free_text", "final_report"} } }

\* C10, amended: a second extract_news_items on the same research result
\* returns the same topics, events and items, field for field, except that the
\* published_date of each item made by the free-text or final-report tier is
\* the clock time of the call that made it.
C10_SameButClock ==
    again.done =>
        LET a == FirstOut.news_items
            b == again.out.news_items
        IN  /\ again.out.trending_topics = FirstOut.trending_topics
            /\ again.out.upcoming_events = FirstOut.upcoming_events
            /\ Len(a) = Len(b)
            /\ \A i \in DOMAIN a :
                 IF a[i] \in Synthesized
                 THEN /\ a[i].published_date = IsoFormat(trace[1].t)
                      /\ b[i] = [a[i] EXCEPT !.published_date = IsoFormat(again.t)]
                 ELSE b[i] = a[i]

\* The second call ran at a later clock time on a result with a free-text item
\* and the outputs differ.
C10_Witness ==
    /\ again.done
    /\ again.t > trace[1].t
    /\ "free_text" \in { trace[1].tiers[i] : i \in DOMAIN trace[1].tiers }
    /\ again.out # FirstOut

\* The bundle stored under key, parsed back from its JSON text.
Stored(key) == objects[key].Body.json

\* key holds the bundle run r published.
HoldsBundleOf(key, r) ==
    key \in DOMAIN objects /\ Stored(key).research_job_id = JobOf(r)

StoreRequests == {"head_bucket", "create_bucket", "put_object"}

\* C3: every news item of a bundle that run 1 persisted has a non-empty id that
\* no other item of the bundle has.
C3_UniqueIds ==
    \A key \in DOMAIN objects :
        HoldsBundleOf(key, 1) =>
            LET items == Stored(key).news_items
            IN  /\ \A i \in DOMAIN items : items[i].id # ""
                /\ \A i, j \in DOMAIN items : i # j => items[i].id # items[j].id

\* C4 as stated: after a run that an error aborted, neither latest.json nor the
\* archive key holds the bundle of that run.
C4_Original ==
    pc[1] = "aborted" => \A key \in DOMAIN objects : ~HoldsBundleOf(key, 1)

\* C4, amended: a run aborted by an error at the research submit, a poll, the
\* bucket check or creation or the put of latest.json leaves no key holding its
\* bundle; a run aborted by an error of the archive put leaves latest.json
\* holding its bundle and the archive key not.
C4_AbortLeaves ==
    pc[1] = "aborted" =>
        /\ \A key \in DOMAIN objects \ {"latest.json"} : ~HoldsBundleOf(key, 1)
        /\ HoldsBundleOf("latest.json", 1) <=> err[1].at = "put_archive"

\* The archive put failed after latest.json was written.
C4_Witness ==
    /\ pc[1] = "aborted"
    /\ err[1] = Raise("StorageError", "put_archive")
    /\ HoldsBundleOf("latest.json", 1)
    /\ put_idx[1] = 1

\* C5: once a status read of the poll loop answers "failed", the run is aborted
\* by the exception of that read, which was read number polls <= 90; no
\* further status read follows and the object store is neither asked nor
\* written by the run.
C5_FailedAborts ==
    /\ [](status[1] = "failed" =>
            /\ pc[1] = "aborted"
            /\ err[1] = Raise("Exception", "poll")
            /\ polls[1] \in 1..MaxAttempts
            /\ requests[1] \cap StoreRequests = {}
            /\ \A key \in DOMAIN objects : ~HoldsBundleOf(key, 1))
    /\ [][/\ (pc[1] = "poll" /\ status'[1] = "failed") => polls'[1] = polls[1] + 1
          /\ status[1] = "failed" => UNCHANGED <<polls, requests, objects>>]_vars

\* "failed" on the third status read.
C5_Witness ==
    /\ status[1] = "failed"
    /\ polls[1] = 3
    /\ pc[1] = "aborted"

\* C6: the poll loop never issues more than 90 status reads; when the 90th read
\* answers, as all before it, with a status that is neither complete nor
\* failed, the run is aborted by TimeoutError, and a run aborted by TimeoutError
\* has issued exactly 90 status reads and has neither asked nor written the
\* object store.
C6_Timeout ==
    /\ polls[1] <= MaxAttempts
    /\ pc[1] = "poll" => polls[1] < MaxAttempts
    /\ (/\ polls[1] = MaxAttempts
        /\ status[1] \notin {"complete", "failed"}
        /\ err[1].type # "HTTPError")
          => pc[1] = "aborted" /\ err[1] = Raise("TimeoutError", "poll")
    /\ err[1].type = "TimeoutError" =>
          /\ polls[1] = MaxAttempts
          /\ pc[1] = "aborted"
          /\ requests[1] \cap StoreRequests = {}
          /\ \A key \in DOMAIN objects : ~HoldsBundleOf(key, 1)

\* Ninety status reads, none of them terminal.
C6_Witness ==
    /\ err[1] = Raise("TimeoutError", "poll")
    /\ polls[1] = MaxAttempts
    /\ status[1] = "running"

\* C7: a run with a required connection parameter missing issues no network
\* call and, once it has started, is aborted by the configuration error.
C7_ConfigFirst ==
    (ResearchConfigMissing(env[1]) \/ StoreConfigMissing(env[1])) =>
        /\ requests[1] = {}
        /\ pc[1] \in {"start", "aborted"}
        /\ pc[1] = "aborted" => err[1].type = "ValueError"

Finished == \A r \in Runs : pc[r] = "done"

Last(seq) == seq[Len(seq)]

\* C9 as stated: after concurrent runs have all published, latest.json holds
\* the bundle of the run whose save_to_minio returned last.
C9_Original == Finished => HoldsBundleOf("latest.json", Last(finish_order))

\* C9, amended: after concurrent runs have all published, latest.json holds the
\* bundle of the run whose put of latest.json completed last, which need not be
\* the run whose save_to_minio returned last.
C9_LastLatestPut ==
    Finished =>
        /\ HoldsBundleOf("latest.json", Last(latest_order))
        /\ objects["latest.json"].Body = json_data[Last(latest_order)].body

\* The run that finished last is not the one that wrote latest.json last.
C9_Witness ==
    /\ Finished
    /\ Last(finish_order) # Last(latest_order)
    /\ ~HoldsBundleOf("latest.json", Last(finish_order))

\* The items the embedded-JSON tier takes from the answers of check_results.
RECURSIVE EmbeddedCount(_)
EmbeddedCount(check_results) ==
    IF check_results = <<>> THEN 0
    ELSE LET c == Head(check_results)
             n == IF /\ Get(c, "passed", FALSE)
                     /\ "answer" \in DOMAIN c
                     /\ c.answer.len > 0
                     /\ EmbeddedJson(c.answer)
                  THEN Len(JsonDocs[c.answer.src].news_items)
                  ELSE 0
         IN  n + EmbeddedCount(Tail(check_results))

\* The number of items the structured, embedded-JSON and free-text tiers make
\* of a research result.
CountBeforeFinal(data) ==
    IF DocItemCount(data.check_results) > 0
    THEN DocItemCount(data.check_results)
    ELSE EmbeddedCount(data.check_results)
           + Cardinality(Qualifying(data.check_results, 101))

TierSet(r) == { trace[r].tiers[i] : i \in DOMAIN trace[r].tiers }

\* C12: a final-report item is made exactly when the structured, embedded-JSON
\* and free-text tiers made no item and final_report is non-empty; the output
\* then has exactly one item, of relevance_score 10, member_tags <<"Group">> and
\* the final report cut to 500 characters as summary.
C12_FinalReport ==
    Extracted =>
        LET data  == research_data[1]
            final == CountBeforeFinal(data) = 0 /\ data.final_report.len > 0
            out   == extracted[1].news_items
        IN  /\ ("final_report" \in TierSet(1)) <=> final
            /\ final =>
                 /\ Len(out) = 1
                 /\ out[1].relevance_score = 10
                 /\ out[1].member_tags = <<"Group">>
                 /\ out[1].summary.src = data.final_report.src
                 /\ out[1].summary.len = IF data.final_report.len < 500
                                         THEN data.final_report.len ELSE 500
            /\ ~final => Len(out) = CountBeforeFinal(data)

\* A final report of 600 characters, next to a check record that yields no item.
C12_Witness ==
    /\ Extracted
    /\ research_data[1].final_report.len = 600
    /\ Len(research_data[1].check_results) > 0
    /\ TierSet(1) = {"final_report"}
    /\ extracted[1].news_items[1].summary = Lit("report", 500)

\* C13 as stated: free-text items are made only if the structured and
\* embedded-JSON tiers together made no item, so no output holds both items of
\* an embedded-JSON answer and free-text items.
C13_Original ==
    (Extracted /\ "free_text" \in TierSet(1)) => TierSet(1) = {"free_text"}

\* C13, amended: the fallback loop runs only if the structured tier made no
\* item, and the final-report item is made only if no tier made an item; within
\* the fallback loop each passed check record yields embedded-JSON items or a
\* free-text item, so one output can hold both kinds.
C13_TierOrder ==
    Extracted =>
        /\ \/ TierSet(1) \subseteq {"structured"}
           \/ TierSet(1) \subseteq {"embedded_json", "free_text"}
           \/ TierSet(1) = {"final_report"}
        /\ trace[1].fallback <=> DocItemCount(research_data[1].check_results) = 0
        /\ Count(trace[1].tiers, "embedded_json")
             = IF trace[1].fallback THEN EmbeddedCount(research_data[1].check_results)
               ELSE 0

\* One output with items of an embedded-JSON answer and a free-text item.
C13_Witness ==
    /\ Extracted
    /\ TierSet(1) = {"embedded_json", "free_text"}
    /\ Len(extracted[1].news_items) = 3

\* C11: get_latest_news answers with the demo bundle whenever latest.json is
\* not stored, the store is unreachable, answers a status other than 200 or a
\* body that is not JSON, or MINIO_ENDPOINT is not set; it answers with stored
\* content, or with an error, only after a read of latest.json that succeeded.
C11_DemoFallback ==
    response.kind # "none" =>
        /\ (\/ ~response.present
            \/ response.read \in {"unconfigured", "exception", "non200", "not_json"})
              => /\ response.kind = "demo"
                 /\ response.body = NewsResponseModel(DEMO_NEWS)
        /\ response.kind \in {"stored", "error"} =>
              /\ response.read = "ok"
              /\ response.present
              /\ backend_env # ""

\* The store holds the bundle of run 1 and the read of it raised.
C11_Witness ==
    /\ response.kind = "demo"
    /\ response.read = "exception"
    /\ HoldsBundleOf("latest.json", 1)
    /\ pc[1] = "done"

\* C14: a bundle that the finished run 1 wrote to latest.json and that
\* get_latest_news read is served as that bundle, without a validation error.
C14_Servable ==
    (/\ pc[1] = "done"
     /\ response.read = "ok"
     /\ "research_job_id" \in DOMAIN response.doc
     /\ response.doc.research_job_id = JobOf(1))
        => /\ response.kind = "stored"
           /\ \A i \in DOMAIN response.doc.news_items :
                NewsItemRequired \subseteq DOMAIN response.doc.news_items[i]

====
